---------------------------- MODULE Spec2Model ----------------------------
(***************************************************************************)
(* Model of gestao_tempo.py: the work/break timer of PomodoroApp, the      *)
(* SQLite store (Database) it logs to, and the manager window that edits   *)
(* the store while the timer runs.                                         *)
(*                                                                         *)
(* Time is counted in sub-second units (SubSec units make one second), so  *)
(* that int((end - start).total_seconds()) and isoformat(timespec=         *)
(* "seconds"), which both truncate, are computed as the code computes      *)
(* them.  The source multiplies the configured minutes by 60; the model    *)
(* keeps the multiplication and scales the factor (SecondsPerMinute).      *)
(***************************************************************************)
EXTENDS Integers, FiniteSets, Sequences, TLC

\* ------------------------------------------------------------------ bounds
SubSec == 2
SecondsPerMinute == 1
MaxMinutes == 2
MaxBreakMinutes == 1
MaxCycles == 2
MaxLate == 1
MaxNow == 7
MaxLogs == 3
MaxProjects == 2
MaxSubjects == 2
MaxNames == 1
MaxText == 2

\* --------------------------------------------------------------- constants
\* None for an identifier or a combobox text ("" / None are both falsy).
None == 0
\* None for a datetime (current_start) and for a timer handle (after_id).
NoTime == 0 - 1
\* The name "Default" / "Geral" of the implicit project and subject.
DefaultName == 1

WorkMinutes == 1..MaxMinutes
BreakMinutes == 1..MaxBreakMinutes
Cycles == 1..MaxCycles
Names == 1..MaxNames

VARIABLES
    now,                    \* wall clock, in sub-second units
    timers,                 \* due times of the pending after() callbacks
    work_minutes, short_break_minutes, long_break_minutes, cycles_for_long_break,
    session, remaining, completed_cycles,
    current_start, current_project_id, current_subject_id,
    is_running, after_id,
    cb_project, cb_subject, ui_projects, ui_subjects,
    projects, subjects, logs, seq_projects, seq_subjects, seq_logs,
    alert_open, manager_open,
    alert_message,          \* the session named by the open dialog, "" if none
    audit,                  \* bookkeeping of the run so far; no program state
    last                    \* the last operation and the state it found; no program state

config == <<work_minutes, short_break_minutes, long_break_minutes, cycles_for_long_break>>
clock == <<session, remaining, completed_cycles, current_start, is_running>>
selection == <<current_project_id, current_subject_id, cb_project, cb_subject,
               ui_projects, ui_subjects>>
store == <<projects, subjects, logs, seq_projects, seq_subjects, seq_logs>>
tables == <<projects, subjects, seq_projects, seq_subjects>>
vars == <<now, timers, config, clock, after_id, selection, store, alert_open, alert_message,
          manager_open, audit, last>>

\* ------------------------------------------------------------ conversions
\* int(timedelta.total_seconds()): whole seconds between two instants.
WholeSeconds(from, to) == (to - from) \div SubSec
\* datetime.isoformat(timespec="seconds"): the instant cut to its second.
IsoSeconds(t) == t \div SubSec

\* ------------------------------------------------------------------ store
ProjectIds == {p.id : p \in projects}
SubjectIds == {s.id : s \in subjects}

\* Mutant of ForeignKeysHold: the subject of a log row is not checked.
ForeignKeysHold_ProjectOnly(project_id, subject_id) ==
    project_id \in ProjectIds

\* PRAGMA foreign_keys = ON: both parents of a log row must exist.
ForeignKeysHold(project_id, subject_id) ==
    project_id \in ProjectIds /\ subject_id \in SubjectIds

\* Mutant of NewLog: a row id without AUTOINCREMENT, one more than the
\* largest id in the table.
NewLog_ReusesIds(project_id, subject_id, start, end, duration) ==
    [id |-> IF logs = {} THEN 1
            ELSE (CHOOSE l \in logs : \A m \in logs : m.id <= l.id).id + 1,
     project_id |-> project_id, subject_id |-> subject_id,
     start_time |-> IsoSeconds(start), end_time |-> IsoSeconds(end),
     duration |-> duration]

\* Database.add_log: the row the INSERT adds.
NewLog(project_id, subject_id, start, end, duration) ==
    [id |-> seq_logs + 1, project_id |-> project_id, subject_id |-> subject_id,
     start_time |-> IsoSeconds(start), end_time |-> IsoSeconds(end),
     duration |-> duration]

\* Rows of a table ordered by name: the first one (combobox index 0).
FirstByName(rows) == CHOOSE r \in rows : \A q \in rows : r.name <= q.name

\* dict.get(name) on a {name: id} snapshot.
Lookup(map, name) ==
    IF \E r \in map : r.name = name
    THEN (CHOOSE r \in map : r.name = name).id
    ELSE None

\* Database.get_subjects(project_id) as the {name: sid} dict built from it.
SubjectsOf(subjs, project_id) ==
    {[id |-> s.id, name |-> s.name] : s \in {x \in subjs : x.project_id = project_id}}


\* Mutant of SubjectsAfterDelete: no cascade from the project to its subjects.
SubjectsAfterDelete_KeepsSubjects(project_id) == subjects

\* Database.delete_project with ON DELETE CASCADE on subjects and logs.
SubjectsAfterDelete(project_id) == {s \in subjects : s.project_id # project_id}
\* Mutant of LogsAfterDelete: no cascade from the deleted subjects to their logs.
LogsAfterDelete_ByProjectOnly(project_id) ==
    {l \in logs : l.project_id # project_id}
LogsAfterDelete(project_id) ==
    {l \in logs : /\ l.project_id # project_id
                  /\ l.subject_id \in {s.id : s \in SubjectsAfterDelete(project_id)}}

\* ------------------------------------------------------------ bookkeeping
\* audit.works : Work completions since the last start from Idle or LongBreak
\* audit.fixed : cycles_for_long_break was not edited since that moment
\* audit.run   : Work completions since the last start from Idle, in a run with
\*               punctual ticks, an existing selection and no other operation;
\*               Spoiled once the run is no longer of that kind
\* audit.base  : seq_logs at the start of that run
\* audit.spent : seconds of the log rows written for the current Work phase,
\*               from the step that entered Work until the next phase is entered
\* audit.exact : in that phase every tick ran at the instant it was due and
\*               no spinbox was edited
Spoiled == 0 - 1
Spoil(a) == [a EXCEPT !.run = Spoiled, !.base = 0]

\* What an operation found: its name and the clock as it was.
Snapshot(op) ==
    [op |-> op, session |-> session, running |-> is_running, remaining |-> remaining,
     cycles |-> completed_cycles, work |-> work_minutes,
     elapsed |-> IF current_start = NoTime THEN 0 ELSE WholeSeconds(current_start, now)]
NoOperation ==
    [op |-> "none", session |-> "Idle", running |-> FALSE, remaining |-> 0,
     cycles |-> 0, work |-> 0, elapsed |-> 0]

AuditStartIdle(a, project_id, subject_id) ==
    [works |-> 0, fixed |-> TRUE,
     run |-> IF project_id \in {p.id : p \in projects}
                /\ subject_id \in {s.id : s \in subjects}
             THEN 0 ELSE Spoiled,
     base |-> IF project_id \in {p.id : p \in projects}
                 /\ subject_id \in {s.id : s \in subjects}
              THEN seq_logs ELSE 0,
     spent |-> 0, exact |-> TRUE]

AuditWorkDone(a, long) ==
    [works |-> IF long \/ ~a.fixed THEN 0 ELSE a.works + 1,
     fixed |-> long \/ a.fixed,
     run |-> IF a.run = Spoiled THEN Spoiled ELSE a.run + 1,
     base |-> a.base, spent |-> a.spent, exact |-> a.exact]

\* A log row of seconds whole seconds was written for the Work phase.
Spent(a, seconds) == [a EXCEPT !.spent = a.spent + seconds]
\* A break has completed: the step enters a new Work phase.
AuditBreakDone(a) == [a EXCEPT !.spent = 0, !.exact = TRUE]
\* A tick of sess ran after the instant it was due.
Late(a, sess) == [Spoil(a) EXCEPT !.exact = a.exact /\ sess # "Work"]

\* ---------------------------------------------------------- session clock
\* Mutant of FinishLogWanted: the first whole second does not count.
FinishLogWanted_OverOneSecond(sess, start, project_id, subject_id) ==
    /\ start # NoTime
    /\ sess = "Work"
    /\ WholeSeconds(start, now) > 1
    /\ project_id # None
    /\ subject_id # None

\* PomodoroApp._finish_session, lines 1231-1233: is a log row to be written?
FinishLogWanted(sess, start, project_id, subject_id) ==
    /\ start # NoTime
    /\ sess = "Work"
    /\ WholeSeconds(start, now) > 0
    /\ project_id # None
    /\ subject_id # None

\* Mutants of PauseLogWanted: a pause that logs breaks too, and one that
\* drops the first whole second.
PauseLogWanted_AnySession(sess, start, project_id, subject_id) ==
    /\ start # NoTime
    /\ WholeSeconds(start, now) > 0
    /\ project_id # None
    /\ subject_id # None

PauseLogWanted_OverOneSecond(sess, start, project_id, subject_id) ==
    /\ start # NoTime
    /\ sess = "Work"
    /\ WholeSeconds(start, now) > 1
    /\ project_id # None
    /\ subject_id # None

\* PomodoroApp.pause, lines 1277-1280: is a partial log row to be written?
PauseLogWanted(sess, start, project_id, subject_id) ==
    /\ start # NoTime
    /\ sess = "Work"
    /\ WholeSeconds(start, now) > 0
    /\ project_id # None
    /\ subject_id # None

\* The INSERT of add_log, with its AUTOINCREMENT row id.
AddLog(project_id, subject_id, start) ==
    /\ seq_logs < MaxLogs
    /\ logs' = logs \cup
         {NewLog(project_id, subject_id, start, now, WholeSeconds(start, now))}
    /\ seq_logs' = seq_logs + 1

\* Mutant of NextSession: > for >= in the comparison with the cycle count.
NextSession_StrictlyMore(sess, cycles) ==
    IF sess = "Work"
    THEN IF cycles + 1 > cycles_for_long_break THEN "LongBreak" ELSE "ShortBreak"
    ELSE "Work"

\* "Decide próxima sessão": the session entered after sess completes.
NextSession(sess, cycles) ==
    IF sess = "Work"
    THEN IF cycles + 1 >= cycles_for_long_break THEN "LongBreak" ELSE "ShortBreak"
    ELSE "Work"

\* Mutant of NextCycles: the counter is not reset on entering LongBreak.
NextCycles_KeepsCounting(sess, cycles) ==
    IF sess = "Work" THEN cycles + 1 ELSE cycles

\* completed_cycles after sess completes (lines 1246-1250).
NextCycles(sess, cycles) ==
    IF sess = "Work"
    THEN IF cycles + 1 >= cycles_for_long_break THEN 0 ELSE cycles + 1
    ELSE cycles

\* Mutant of NextRemaining: Work after a break gets the short break's length.
NextRemaining_ShortForWork(sess, cycles) ==
    IF sess = "Work"
    THEN IF cycles + 1 >= cycles_for_long_break
         THEN long_break_minutes * SecondsPerMinute
         ELSE short_break_minutes * SecondsPerMinute
    ELSE short_break_minutes * SecondsPerMinute

NextRemaining(sess, cycles) ==
    IF sess = "Work"
    THEN IF cycles + 1 >= cycles_for_long_break
         THEN long_break_minutes * SecondsPerMinute
         ELSE short_break_minutes * SecondsPerMinute
    ELSE work_minutes * SecondsPerMinute

\* Mutant of FinishSession: the dialog names the session that has just ended.
FinishSession_NamesEndedSession(sess, rem, cycles, start, project_id, subject_id, a) ==
    /\ is_running' = FALSE
    /\ IF /\ FinishLogWanted(sess, start, project_id, subject_id)
          /\ ~ForeignKeysHold(project_id, subject_id)
       THEN /\ session' = sess
            /\ remaining' = rem
            /\ completed_cycles' = cycles
            /\ current_start' = start
            /\ alert_open' = FALSE /\ alert_message' = ""
            /\ audit' = Spoil(a)
            /\ UNCHANGED <<logs, seq_logs>>
       ELSE /\ IF FinishLogWanted(sess, start, project_id, subject_id)
               THEN AddLog(project_id, subject_id, start)
               ELSE UNCHANGED <<logs, seq_logs>>
            /\ current_start' = NoTime
            /\ session' = NextSession(sess, cycles)
            /\ completed_cycles' = NextCycles(sess, cycles)
            /\ remaining' = NextRemaining(sess, cycles)
            /\ alert_open' = TRUE
            /\ alert_message' = sess
            /\ audit' = IF sess = "Work"
                        THEN Spent(AuditWorkDone(a, NextSession(sess, cycles) = "LongBreak"),
                                   IF FinishLogWanted(sess, start, project_id, subject_id)
                                   THEN WholeSeconds(start, now) ELSE 0)
                        ELSE AuditBreakDone(a)

\* PomodoroApp._finish_session, up to the yes/no dialog of _alert_next_session.
\* An add_log that violates a foreign key raises sqlite3.IntegrityError, which
\* leaves the handler at line 1234 with only is_running changed.
FinishSession(sess, rem, cycles, start, project_id, subject_id, a) ==
    /\ is_running' = FALSE
    /\ IF /\ FinishLogWanted(sess, start, project_id, subject_id)
          /\ ~ForeignKeysHold(project_id, subject_id)
       THEN /\ session' = sess
            /\ remaining' = rem
            /\ completed_cycles' = cycles
            /\ current_start' = start
            /\ alert_open' = FALSE /\ alert_message' = ""
            /\ audit' = Spoil(a)
            /\ UNCHANGED <<logs, seq_logs>>
       ELSE /\ IF FinishLogWanted(sess, start, project_id, subject_id)
               THEN AddLog(project_id, subject_id, start)
               ELSE UNCHANGED <<logs, seq_logs>>
            /\ current_start' = NoTime
            /\ session' = NextSession(sess, cycles)
            /\ completed_cycles' = NextCycles(sess, cycles)
            /\ remaining' = NextRemaining(sess, cycles)
            /\ alert_open' = TRUE
            /\ alert_message' = session'
            /\ audit' = IF sess = "Work"
                        THEN Spent(AuditWorkDone(a, NextSession(sess, cycles) = "LongBreak"),
                                   IF FinishLogWanted(sess, start, project_id, subject_id)
                                   THEN WholeSeconds(start, now) ELSE 0)
                        ELSE AuditBreakDone(a)

\* Mutants of TickRunning: one that schedules without counting down, and one
\* that finishes in the tick that counts down to zero.
TickRunning_NoCountDown(sess, rem, cycles, start, project_id, subject_id, pending, a) ==
    IF rem <= 0
    THEN /\ FinishSession(sess, rem, cycles, start, project_id, subject_id, a)
         /\ timers' = pending
         /\ UNCHANGED after_id
    ELSE /\ remaining' = rem
         /\ after_id' = now + SubSec
         /\ timers' = pending \cup {now + SubSec}
         /\ session' = sess
         /\ completed_cycles' = cycles
         /\ current_start' = start
         /\ is_running' = TRUE
         /\ alert_open' = FALSE /\ alert_message' = ""
         /\ audit' = a
         /\ UNCHANGED <<logs, seq_logs>>

TickRunning_FinishOnReachingZero(sess, rem, cycles, start, project_id, subject_id, pending, a) ==
    IF rem - 1 <= 0
    THEN /\ FinishSession(sess, rem - 1, cycles, start, project_id, subject_id, a)
         /\ timers' = pending
         /\ UNCHANGED after_id
    ELSE /\ remaining' = rem - 1
         /\ after_id' = now + SubSec
         /\ timers' = pending \cup {now + SubSec}
         /\ session' = sess
         /\ completed_cycles' = cycles
         /\ current_start' = start
         /\ is_running' = TRUE
         /\ alert_open' = FALSE /\ alert_message' = ""
         /\ audit' = a
         /\ UNCHANGED <<logs, seq_logs>>

\* Mutant of TickRunning: the phase is finished by the tick that finds remaining
\* below zero, one second later.
TickRunning_FinishBelowZero(sess, rem, cycles, start, project_id, subject_id, pending, a) ==
    IF rem < 0
    THEN /\ FinishSession(sess, rem, cycles, start, project_id, subject_id, a)
         /\ timers' = pending
         /\ UNCHANGED after_id
    ELSE /\ remaining' = rem - 1
         /\ after_id' = now + SubSec
         /\ timers' = pending \cup {now + SubSec}
         /\ session' = sess
         /\ completed_cycles' = cycles
         /\ current_start' = start
         /\ is_running' = TRUE
         /\ alert_open' = FALSE /\ alert_message' = ""
         /\ audit' = a
         /\ UNCHANGED <<logs, seq_logs>>

\* PomodoroApp._tick once is_running is known to hold: finish at zero,
\* else count one second down and schedule the next tick in 1000 ms.
TickRunning(sess, rem, cycles, start, project_id, subject_id, pending, a) ==
    IF rem <= 0
    THEN /\ FinishSession(sess, rem, cycles, start, project_id, subject_id, a)
         /\ timers' = pending
         /\ UNCHANGED after_id
    ELSE /\ remaining' = rem - 1
         /\ after_id' = now + SubSec
         /\ timers' = pending \cup {now + SubSec}
         /\ session' = sess
         /\ completed_cycles' = cycles
         /\ current_start' = start
         /\ is_running' = TRUE
         /\ alert_open' = FALSE /\ alert_message' = ""
         /\ audit' = a
         /\ UNCHANGED <<logs, seq_logs>>

\* Mutant of StartCall: every start() begins a fresh Work phase.
StartCall_AlwaysFresh ==
    IF is_running \/ cb_project = None \/ cb_subject = None
    THEN /\ alert_open' = FALSE /\ alert_message' = ""
         /\ UNCHANGED <<clock, timers, after_id, logs, seq_logs,
                        current_project_id, current_subject_id, audit>>
    ELSE LET project_id == Lookup(ui_projects, cb_project)
             subject_id == Lookup(ui_subjects, cb_subject)
         IN /\ current_project_id' = project_id
            /\ current_subject_id' = subject_id
            /\ TickRunning("Work", work_minutes * SecondsPerMinute, 0,
                           now, project_id, subject_id, timers,
                           AuditStartIdle(audit, project_id, subject_id))

\* Mutant of StartCall: no early return when the timer is already running.
StartCall_NoRunningGuard ==
    IF cb_project = None \/ cb_subject = None
    THEN /\ alert_open' = FALSE /\ alert_message' = ""
         /\ UNCHANGED <<clock, timers, after_id, logs, seq_logs,
                        current_project_id, current_subject_id, audit>>
    ELSE LET project_id == Lookup(ui_projects, cb_project)
             subject_id == Lookup(ui_subjects, cb_subject)
             idle == session = "Idle"
         IN /\ current_project_id' = project_id
            /\ current_subject_id' = subject_id
            /\ TickRunning(IF idle THEN "Work" ELSE session,
                           IF idle THEN work_minutes * SecondsPerMinute ELSE remaining,
                           IF idle THEN 0 ELSE completed_cycles,
                           now, project_id, subject_id, timers,
                           IF idle THEN AuditStartIdle(audit, project_id, subject_id)
                           ELSE audit)

\* PomodoroApp.start, called from the button or from the dialog's "yes".
StartCall ==
    IF is_running \/ cb_project = None \/ cb_subject = None
    THEN /\ alert_open' = FALSE /\ alert_message' = ""
         /\ UNCHANGED <<clock, timers, after_id, logs, seq_logs,
                        current_project_id, current_subject_id, audit>>
    ELSE LET project_id == Lookup(ui_projects, cb_project)
             subject_id == Lookup(ui_subjects, cb_subject)
             idle == session = "Idle"
         IN /\ current_project_id' = project_id
            /\ current_subject_id' = subject_id
            /\ TickRunning(IF idle THEN "Work" ELSE session,
                           IF idle THEN work_minutes * SecondsPerMinute ELSE remaining,
                           IF idle THEN 0 ELSE completed_cycles,
                           now, project_id, subject_id, timers,
                           IF idle THEN AuditStartIdle(audit, project_id, subject_id)
                           ELSE audit)

\* Mutant of Cancelled: the pending callback is left in place.
Cancelled_NotAtAll == timers

\* after_cancel(self.after_id) of pause and reset_timer.
Cancelled == IF after_id # NoTime THEN timers \ {after_id} ELSE timers

\* ----------------------------------------------------------------- actions
Modal == alert_open \/ manager_open

\* The "Iniciar" button.
Start ==
    /\ ~Modal
    /\ StartCall
    /\ last' = Snapshot("start")
    /\ UNCHANGED <<now, config, cb_project, cb_subject, ui_projects, ui_subjects,
                   tables, manager_open>>

\* The after() callback: _tick run by the event loop once it is due.
Tick ==
    /\ \E due \in timers :
         /\ due <= now
         /\ IF ~is_running
            THEN /\ timers' = timers \ {due}
                 /\ UNCHANGED <<clock, after_id, logs, seq_logs, alert_open, alert_message, audit>>
            ELSE TickRunning(session, remaining, completed_cycles, current_start,
                             current_project_id, current_subject_id, timers \ {due},
                             IF due = now THEN audit ELSE Late(audit, session))
    /\ last' = Snapshot("tick")
    /\ UNCHANGED <<now, config, selection, tables, manager_open>>

\* The answer to "Deseja iniciar agora?": yes calls start().
AlertAnswer ==
    /\ alert_open
    /\ \E yes \in BOOLEAN :
         IF yes
         THEN StartCall /\ last' = Snapshot("yes")
         ELSE /\ alert_open' = FALSE /\ alert_message' = ""
              /\ last' = Snapshot("no")
              /\ UNCHANGED <<clock, timers, after_id, logs, seq_logs,
                             current_project_id, current_subject_id, audit>>
    /\ UNCHANGED <<now, config, cb_project, cb_subject, ui_projects, ui_subjects,
                   tables, manager_open>>

\* Mutant of Pause: the early return is taken in Idle only.
Pause_GuardedInIdleOnly ==
    /\ ~Modal
    /\ IF ~is_running /\ session = "Idle"
       THEN UNCHANGED <<clock, timers, after_id, logs, seq_logs, audit>>
       ELSE /\ is_running' = FALSE
            /\ audit' = LET a == IF session = "Work" /\ \E due \in timers : due < now
                                 THEN Late(audit, session) ELSE Spoil(audit)
                        IN IF /\ PauseLogWanted(session, current_start,
                                                current_project_id, current_subject_id)
                              /\ ForeignKeysHold(current_project_id, current_subject_id)
                           THEN Spent(a, WholeSeconds(current_start, now))
                           ELSE a
            /\ timers' = Cancelled
            /\ after_id' = NoTime
            /\ IF /\ PauseLogWanted(session, current_start,
                                    current_project_id, current_subject_id)
                  /\ ~ForeignKeysHold(current_project_id, current_subject_id)
               THEN UNCHANGED <<current_start, logs, seq_logs>>
               ELSE /\ IF PauseLogWanted(session, current_start,
                                         current_project_id, current_subject_id)
                       THEN AddLog(current_project_id, current_subject_id, current_start)
                       ELSE UNCHANGED <<logs, seq_logs>>
                    /\ current_start' = NoTime
            /\ UNCHANGED <<session, remaining, completed_cycles>>
    /\ last' = Snapshot("pause")
    /\ UNCHANGED <<now, config, selection, tables, alert_open, alert_message, manager_open>>

\* The "Pausar" button.
Pause ==
    /\ ~Modal
    /\ IF ~is_running
       THEN UNCHANGED <<clock, timers, after_id, logs, seq_logs, audit>>
       ELSE /\ is_running' = FALSE
            /\ audit' = LET a == IF session = "Work" /\ \E due \in timers : due < now
                                 THEN Late(audit, session) ELSE Spoil(audit)
                        IN IF /\ PauseLogWanted(session, current_start,
                                                current_project_id, current_subject_id)
                              /\ ForeignKeysHold(current_project_id, current_subject_id)
                           THEN Spent(a, WholeSeconds(current_start, now))
                           ELSE a
            /\ timers' = Cancelled
            /\ after_id' = NoTime
            /\ IF /\ PauseLogWanted(session, current_start,
                                    current_project_id, current_subject_id)
                  /\ ~ForeignKeysHold(current_project_id, current_subject_id)
               THEN UNCHANGED <<current_start, logs, seq_logs>>
               ELSE /\ IF PauseLogWanted(session, current_start,
                                         current_project_id, current_subject_id)
                       THEN AddLog(current_project_id, current_subject_id, current_start)
                       ELSE UNCHANGED <<logs, seq_logs>>
                    /\ current_start' = NoTime
            /\ UNCHANGED <<session, remaining, completed_cycles>>
    /\ last' = Snapshot("pause")
    /\ UNCHANGED <<now, config, selection, tables, alert_open, alert_message, manager_open>>

\* The "Resetar" button.
ResetTimer ==
    /\ ~Modal
    /\ is_running' = FALSE
    /\ timers' = Cancelled
    /\ after_id' = NoTime
    /\ session' = "Idle"
    /\ completed_cycles' = 0
    /\ remaining' = work_minutes * SecondsPerMinute
    /\ current_start' = NoTime
    /\ audit' = AuditBreakDone(Spoil(audit))
    /\ last' = Snapshot("reset")
    /\ UNCHANGED <<now, config, selection, store, alert_open, alert_message, manager_open>>

\* Wall-clock time passes; a due callback is run at most MaxLate units late.
Advance ==
    /\ now < MaxNow
    /\ \A due \in timers : now < due + MaxLate
    /\ now' = now + 1
    /\ last' = NoOperation
    /\ UNCHANGED <<timers, config, clock, after_id, selection, store,
                   alert_open, alert_message, manager_open, audit>>

\* ------------------------------------------------- selection and manager
\* Mutant of LoadSubjects: the subject list and the subject are not reloaded
\* for the project that is selected.
LoadSubjects_KeepsSubject(name, map, subjs) ==
    /\ current_project_id' = Lookup(map, name)
    /\ UNCHANGED <<ui_subjects, cb_subject, current_subject_id>>

\* PomodoroApp._load_subjects for combobox text name over the snapshot map,
\* reading the subjects table subjs: the four fields it assigns.
LoadSubjects(name, map, subjs) ==
    LET project_id == Lookup(map, name)
        found == SubjectsOf(subjs, project_id)
    IN /\ current_project_id' = project_id
       /\ IF project_id = None
          THEN /\ current_subject_id' = None
               /\ UNCHANGED <<ui_subjects, cb_subject>>
          ELSE /\ ui_subjects' = found
               /\ IF found # {}
                  THEN /\ cb_subject' = FirstByName(found).name
                       /\ current_subject_id' = FirstByName(found).id
                  ELSE /\ current_subject_id' = None
                       /\ UNCHANGED cb_subject

\* <<ComboboxSelected>> on the project combobox.
SelectProject ==
    /\ ~Modal
    /\ \E p \in ui_projects :
         /\ cb_project' = p.name
         /\ LoadSubjects(p.name, ui_projects, subjects)
    /\ audit' = Spoil(audit)
    /\ last' = NoOperation
    /\ UNCHANGED <<now, timers, config, clock, after_id, ui_projects, store,
                   alert_open, alert_message, manager_open>>

\* A choice in the subject combobox: no handler is bound to it.
SelectSubject ==
    /\ ~Modal
    /\ \E s \in ui_subjects : cb_subject' = s.name
    /\ audit' = Spoil(audit)
    /\ last' = NoOperation
    /\ UNCHANGED <<now, timers, config, clock, after_id, current_project_id,
                   current_subject_id, cb_project, ui_projects, ui_subjects, store,
                   alert_open, alert_message, manager_open>>

\* Mutant of SetConfig: an edit of the work duration restarts the countdown.
SetConfig_Rescales ==
    /\ ~Modal
    /\ \/ \E m \in WorkMinutes : work_minutes' = m /\
            UNCHANGED <<short_break_minutes, long_break_minutes, cycles_for_long_break>>
       \/ \E m \in BreakMinutes : short_break_minutes' = m /\
            UNCHANGED <<work_minutes, long_break_minutes, cycles_for_long_break>>
       \/ \E m \in BreakMinutes : long_break_minutes' = m /\
            UNCHANGED <<work_minutes, short_break_minutes, cycles_for_long_break>>
       \/ \E c \in Cycles : cycles_for_long_break' = c /\
            UNCHANGED <<work_minutes, short_break_minutes, long_break_minutes>>
    /\ audit' = [Spoil(audit) EXCEPT
                   !.fixed = audit.fixed /\ cycles_for_long_break' = cycles_for_long_break,
                   !.works = IF cycles_for_long_break' = cycles_for_long_break
                             THEN audit.works ELSE 0,
                   !.exact = audit.exact /\ (session = "Idle" \/ UNCHANGED config)]
    /\ last' = Snapshot("config")
    /\ remaining' = IF session = "Work" THEN work_minutes' * SecondsPerMinute ELSE remaining
    /\ UNCHANGED <<session, completed_cycles, current_start, is_running>>
    /\ UNCHANGED <<now, timers, after_id, selection, store,
                   alert_open, alert_message, manager_open>>

\* An edit of one of the four spinboxes.
SetConfig ==
    /\ ~Modal
    /\ \/ \E m \in WorkMinutes : work_minutes' = m /\
            UNCHANGED <<short_break_minutes, long_break_minutes, cycles_for_long_break>>
       \/ \E m \in BreakMinutes : short_break_minutes' = m /\
            UNCHANGED <<work_minutes, long_break_minutes, cycles_for_long_break>>
       \/ \E m \in BreakMinutes : long_break_minutes' = m /\
            UNCHANGED <<work_minutes, short_break_minutes, cycles_for_long_break>>
       \/ \E c \in Cycles : cycles_for_long_break' = c /\
            UNCHANGED <<work_minutes, short_break_minutes, long_break_minutes>>
    /\ audit' = [Spoil(audit) EXCEPT
                   !.fixed = audit.fixed /\ cycles_for_long_break' = cycles_for_long_break,
                   !.works = IF cycles_for_long_break' = cycles_for_long_break
                             THEN audit.works ELSE 0,
                   !.exact = audit.exact /\ (session = "Idle" \/ UNCHANGED config)]
    /\ last' = Snapshot("config")
    /\ UNCHANGED <<now, timers, clock, after_id, selection, store,
                   alert_open, alert_message, manager_open>>

\* The "Gerenciar..." button: a modal ManagerWindow over the main window.
OpenManager ==
    /\ ~Modal
    /\ manager_open' = TRUE
    /\ audit' = Spoil(audit)
    /\ last' = NoOperation
    /\ UNCHANGED <<now, timers, config, clock, after_id, selection, store, alert_open, alert_message>>

\* Mutant of ProjectsAfterAdd: a plain INSERT without the UNIQUE constraint.
ProjectsAfterAdd_AlwaysInserts(name) ==
    projects \cup {[id |-> seq_projects + 1, name |-> name]}

\* Database.add_project: INSERT OR IGNORE, then SELECT id.  The INSERT takes
\* the next AUTOINCREMENT id even when the UNIQUE conflict makes it add no row.
ProjectsAfterAdd(name) ==
    IF \E p \in projects : p.name = name
    THEN projects
    ELSE projects \cup {[id |-> seq_projects + 1, name |-> name]}

\* Database.add_subject: INSERT OR IGNORE under UNIQUE (project_id, name).
SubjectsAfterAdd(subjs, seq, project_id, name) ==
    IF \E s \in subjs : s.project_id = project_id /\ s.name = name
    THEN subjs
    ELSE subjs \cup {[id |-> seq + 1, project_id |-> project_id, name |-> name]}

\* ManagerWindow._add_project.
ManagerAddProject ==
    /\ manager_open /\ ~alert_open
    /\ \E name \in Names :
         /\ seq_projects < MaxProjects
         /\ projects' = ProjectsAfterAdd(name)
         /\ seq_projects' = seq_projects + 1
    /\ audit' = Spoil(audit)
    /\ last' = NoOperation
    /\ UNCHANGED <<now, timers, config, clock, after_id, selection, subjects, logs,
                   seq_subjects, seq_logs, alert_open, alert_message, manager_open>>

\* ManagerWindow._add_subject under the project selected in its list.
ManagerAddSubject ==
    /\ manager_open /\ ~alert_open
    /\ \E p \in projects, name \in Names :
         /\ seq_subjects < MaxSubjects
         /\ subjects' = SubjectsAfterAdd(subjects, seq_subjects, p.id, name)
         /\ seq_subjects' = seq_subjects + 1
    /\ audit' = Spoil(audit)
    /\ last' = NoOperation
    /\ UNCHANGED <<now, timers, config, clock, after_id, selection, projects, logs,
                   seq_projects, seq_logs, alert_open, alert_message, manager_open>>

\* ManagerWindow._delete_project, confirmed.
ManagerDeleteProject ==
    /\ manager_open /\ ~alert_open
    /\ \E p \in projects :
         /\ projects' = projects \ {p}
         /\ subjects' = SubjectsAfterDelete(p.id)
         /\ logs' = LogsAfterDelete(p.id)
    /\ audit' = Spoil(audit)
    /\ last' = NoOperation
    /\ UNCHANGED <<now, timers, config, clock, after_id, selection,
                   seq_projects, seq_subjects, seq_logs, alert_open, alert_message, manager_open>>

\* What a button of the manager window was pressed with: the identifier its
\* list had selected (None for no selection), the answer the user is ready to
\* give to a confirmation, and the exception the handler ended with.
Pressed(op, selected, confirm, raised) ==
    [op |-> op, selected |-> selected, confirm |-> confirm, raised |-> raised]

\* ManagerWindow._delete_subject.  With no subject selected it warns and
\* returns; with one selected it evaluates messagebox.f, an attribute the
\* module tkinter.messagebox does not have, and ends in AttributeError before
\* any question is asked: delete_subject and _load_subjects are not reached.
ManagerDeleteSubject ==
    /\ manager_open /\ ~alert_open
    /\ \E subject_id \in {None} \cup {s.id : s \in subjects}, confirm \in BOOLEAN :
         last' = Pressed("delete_subject", subject_id, confirm,
                         IF subject_id = None THEN "" ELSE "AttributeError")
    /\ audit' = Spoil(audit)
    /\ UNCHANGED <<now, timers, config, clock, after_id, selection, store,
                   alert_open, alert_message, manager_open>>

\* ManagerWindow._handle_close: on_close is PomodoroApp._load_projects, which
\* recreates "Default"/"Geral" in an empty store and selects the first project.
CloseManager ==
    /\ manager_open /\ ~alert_open
    /\ manager_open' = FALSE
    /\ IF projects = {}
       THEN /\ seq_projects < MaxProjects /\ seq_subjects < MaxSubjects
            /\ projects' = ProjectsAfterAdd(DefaultName)
            /\ seq_projects' = seq_projects + 1
            /\ subjects' = SubjectsAfterAdd(subjects, seq_subjects,
                                            seq_projects + 1, DefaultName)
            /\ seq_subjects' = seq_subjects + 1
       ELSE UNCHANGED tables
    /\ ui_projects' = projects'
    /\ cb_project' = FirstByName(projects').name
    /\ LoadSubjects(cb_project', ui_projects', subjects')
    /\ audit' = Spoil(audit)
    /\ last' = NoOperation
    /\ UNCHANGED <<now, timers, config, clock, after_id, logs, seq_logs, alert_open, alert_message>>

\* ------------------------------------------------------- initial state
\* A store file as main() can find it: new, where _load_projects creates
\* "Default"/"Geral", or left by an earlier run in which the first project was
\* deleted and a project without subjects was added.
FreshStore ==
    /\ projects = {[id |-> 1, name |-> DefaultName]}
    /\ subjects = {[id |-> 1, project_id |-> 1, name |-> DefaultName]}
    /\ seq_projects = 1
    /\ seq_subjects = 1
LeftStore ==
    /\ projects = {[id |-> 2, name |-> DefaultName]}
    /\ subjects = {}
    /\ seq_projects = 2
    /\ seq_subjects = 1

\* main() and PomodoroApp.__init__: the first project of the store is
\* selected, with its first subject if it has one; the timer is idle.
Init ==
    /\ now \in 0..(SubSec - 1)
    /\ timers = {}
    /\ work_minutes \in WorkMinutes
    /\ short_break_minutes \in BreakMinutes
    /\ long_break_minutes \in BreakMinutes
    /\ cycles_for_long_break \in Cycles
    /\ session = "Idle"
    /\ remaining = work_minutes * SecondsPerMinute
    /\ completed_cycles = 0
    /\ current_start = NoTime
    /\ is_running = FALSE
    /\ after_id = NoTime
    /\ FreshStore \/ LeftStore
    /\ logs = {}
    /\ seq_logs = 0
    /\ ui_projects = projects
    /\ cb_project = FirstByName(projects).name
    /\ current_project_id = FirstByName(projects).id
    /\ ui_subjects = SubjectsOf(subjects, current_project_id)
    /\ cb_subject = IF ui_subjects = {} THEN None ELSE FirstByName(ui_subjects).name
    /\ current_subject_id = IF ui_subjects = {} THEN None ELSE FirstByName(ui_subjects).id
    /\ alert_open = FALSE /\ alert_message = ""
    /\ manager_open = FALSE
    /\ audit = [works |-> 0, fixed |-> TRUE, run |-> Spoiled, base |-> 0,
                spent |-> 0, exact |-> TRUE]
    /\ last = NoOperation

Next ==
    \/ Start
    \/ Tick
    \/ AlertAnswer
    \/ Pause
    \/ ResetTimer
    \/ Advance
    \/ SelectProject
    \/ SelectSubject
    \/ SetConfig
    \/ OpenManager
    \/ ManagerAddProject
    \/ ManagerAddSubject
    \/ ManagerDeleteProject
    \/ CloseManager

Spec == Init /\ [][Next]_vars

\* ------------------------------------------------------- Database as an API
\* The methods of Database called directly, with any argument: names are
\* texts (sequences of characters) as typed, identifiers are any small number.
Space == " "
Chars == {Space, "a"}
Texts == UNION {[1..n -> Chars] : n \in 0..MaxText}
ProjectIdArgs == 1..MaxProjects
SubjectIdArgs == 1..MaxSubjects

\* str.strip(): the text without its leading and trailing whitespace.
RECURSIVE LStrip(_)
LStrip(text) ==
    IF text # <<>> /\ Head(text) = Space THEN LStrip(Tail(text)) ELSE text
RECURSIVE RStrip(_)
RStrip(text) ==
    IF text # <<>> /\ text[Len(text)] = Space
    THEN RStrip(SubSeq(text, 1, Len(text) - 1))
    ELSE text
\* Mutant of Strip: trailing whitespace is kept.
Strip_LeadingOnly(text) == LStrip(text)

Strip(text) == RStrip(LStrip(text))

\* The main window and its timer, untouched by a direct call of the store.
app == <<now, timers, config, clock, after_id, selection, alert_open, alert_message,
         manager_open, audit>>

\* What a call did: its name, its arguments, what it returned or raised, and
\* how many projects, subjects and logs it found in the store.
Called(op, arg, name, returned, raised) ==
    [op |-> op, arg |-> arg, name |-> name, returned |-> returned, raised |-> raised,
     found |-> <<Cardinality(projects), Cardinality(subjects), Cardinality(logs)>>]

\* Database.add_project(raw).
DbAddProject(raw) ==
    LET name == Strip(raw)
    IN /\ IF name = <<>>
          THEN /\ last' = Called("add_project", <<>>, raw, None, "ValueError")
               /\ UNCHANGED store
          ELSE /\ seq_projects < MaxProjects
               /\ projects' = ProjectsAfterAdd(name)
               /\ seq_projects' = seq_projects + 1
               /\ last' = Called("add_project", <<>>, raw,
                                 (CHOOSE p \in projects' : p.name = name).id, "")
               /\ UNCHANGED <<subjects, logs, seq_subjects, seq_logs>>
       /\ UNCHANGED app

\* Database.add_subject(project_id, raw): the INSERT fails on the foreign key
\* when the project does not exist, and then takes no id.
DbAddSubject(project_id, raw) ==
    LET name == Strip(raw)
    IN /\ IF name = <<>>
          THEN /\ last' = Called("add_subject", <<project_id>>, raw, None, "ValueError")
               /\ UNCHANGED store
          ELSE IF project_id \notin ProjectIds
          THEN /\ last' = Called("add_subject", <<project_id>>, raw, None, "IntegrityError")
               /\ UNCHANGED store
          ELSE /\ seq_subjects < MaxSubjects
               /\ subjects' = SubjectsAfterAdd(subjects, seq_subjects, project_id, name)
               /\ seq_subjects' = seq_subjects + 1
               /\ last' = Called("add_subject", <<project_id>>, raw,
                                 (CHOOSE x \in subjects' :
                                    x.project_id = project_id /\ x.name = name).id, "")
               /\ UNCHANGED <<projects, logs, seq_projects, seq_logs>>
       /\ UNCHANGED app

\* Database.delete_project(project_id).
DbDeleteProject(project_id) ==
    /\ projects' = {p \in projects : p.id # project_id}
    /\ subjects' = SubjectsAfterDelete(project_id)
    /\ logs' = LogsAfterDelete(project_id)
    /\ last' = Called("delete_project", <<project_id>>, <<>>, None, "")
    /\ UNCHANGED <<seq_projects, seq_subjects, seq_logs>>
    /\ UNCHANGED app

\* Mutant of DbDeleteSubject: the logs of the subject stay.
DbDeleteSubject_KeepsLogs(subject_id) ==
    /\ subjects' = {x \in subjects : x.id # subject_id}
    /\ last' = Called("delete_subject", <<subject_id>>, <<>>, None, "")
    /\ UNCHANGED <<projects, logs, seq_projects, seq_subjects, seq_logs>>
    /\ UNCHANGED app

\* Database.delete_subject(subject_id) with ON DELETE CASCADE on logs.
DbDeleteSubject(subject_id) ==
    /\ subjects' = {x \in subjects : x.id # subject_id}
    /\ logs' = {l \in logs : l.subject_id # subject_id}
    /\ last' = Called("delete_subject", <<subject_id>>, <<>>, None, "")
    /\ UNCHANGED <<projects, seq_projects, seq_subjects, seq_logs>>
    /\ UNCHANGED app

\* Database.add_log(project_id, subject_id, ...) for an interval of one second.
DbAddLog(project_id, subject_id) ==
    /\ IF ForeignKeysHold(project_id, subject_id)
       THEN /\ seq_logs < MaxLogs
            /\ logs' = logs \cup {NewLog(project_id, subject_id, 0, SubSec, 1)}
            /\ seq_logs' = seq_logs + 1
            /\ last' = Called("add_log", <<project_id, subject_id>>, <<>>, seq_logs + 1, "")
       ELSE /\ last' = Called("add_log", <<project_id, subject_id>>, <<>>,
                              None, "IntegrityError")
            /\ UNCHANGED <<logs, seq_logs>>
    /\ UNCHANGED <<tables, app>>

AddProject == \E raw \in Texts : DbAddProject(raw)
AddSubject == \E project_id \in ProjectIdArgs, raw \in Texts : DbAddSubject(project_id, raw)
DeleteProject == \E project_id \in ProjectIdArgs : DbDeleteProject(project_id)
DeleteSubject == \E subject_id \in SubjectIdArgs : DbDeleteSubject(subject_id)
AddLogRow ==
    \E project_id \in ProjectIdArgs, subject_id \in SubjectIdArgs :
        DbAddLog(project_id, subject_id)

\* Database.__init__ on a new file: the three tables exist and are empty.
StoreInit ==
    /\ projects = {} /\ subjects = {} /\ logs = {}
    /\ seq_projects = 0 /\ seq_subjects = 0 /\ seq_logs = 0
    /\ now = 0
    /\ timers = {}
    /\ work_minutes = 1 /\ short_break_minutes = 1
    /\ long_break_minutes = 1 /\ cycles_for_long_break = 1
    /\ session = "Idle" /\ remaining = SecondsPerMinute /\ completed_cycles = 0
    /\ current_start = NoTime /\ is_running = FALSE /\ after_id = NoTime
    /\ current_project_id = None /\ current_subject_id = None
    /\ cb_project = None /\ cb_subject = None
    /\ ui_projects = {} /\ ui_subjects = {}
    /\ alert_open = FALSE /\ alert_message = "" /\ manager_open = FALSE
    /\ audit = [works |-> 0, fixed |-> TRUE, run |-> Spoiled, base |-> 0,
                spent |-> 0, exact |-> TRUE]
    /\ last = Called("none", <<>>, <<>>, None, "")

StoreNext ==
    \/ AddProject
    \/ AddSubject
    \/ DeleteProject
    \/ DeleteSubject
    \/ AddLogRow

StoreSpec == StoreInit /\ [][StoreNext]_vars

\* ------------------------------------------------------- Database reports
\* The five report queries.  A stored timestamp is a whole number of seconds
\* and a calendar date a whole number of days; DATE() cuts a timestamp to its
\* date (SecondsPerDay seconds make one day).
SecondsPerDay == 2
MaxDay == 1
MaxDuration == 2
MaxRows == 3

Days == 0..MaxDay
StartTimes == 0..((MaxDay + 1) * SecondsPerDay - 1)
Durations == 1..MaxDuration

\* SQL NULL in the name column of a LEFT JOIN that finds no row.
NullName == <<>>

\* DATE(start_time).
DateOf(timestamp) == timestamp \div SecondsPerDay

\* WHERE DATE(l.start_time) = ?
OnDay(l, day_iso) == DateOf(l.start_time) = day_iso

\* Mutant of InRange: the end date is excluded.
InRange_EndExcluded(l, start_iso, end_iso) ==
    start_iso <= DateOf(l.start_time) /\ DateOf(l.start_time) < end_iso

\* WHERE DATE(l.start_time) BETWEEN DATE(?) AND DATE(?)
InRange(l, start_iso, end_iso) ==
    start_iso <= DateOf(l.start_time) /\ DateOf(l.start_time) <= end_iso

\* LEFT JOIN projects p ON p.id = l.project_id (and the same for subjects):
\* the name of the row with this id.
JoinedName(rows, id) ==
    IF \E r \in rows : r.id = id
    THEN (CHOOSE r \in rows : r.id = id).name
    ELSE NullName

\* One row of get_logs_day and get_logs_range.
LogRow(l) ==
    [id |-> l.id,
     project_name |-> JoinedName(projects, l.project_id),
     subject_name |-> JoinedName(subjects, l.subject_id),
     start_time |-> l.start_time, end_time |-> l.end_time, duration |-> l.duration]

\* ORDER BY l.start_time: rows with the same start_time come in rowid order.
RECURSIVE OrderByStart(_)
OrderByStart(rows) ==
    IF rows = {} THEN <<>>
    ELSE LET first == CHOOSE l \in rows : \A m \in rows :
                          \/ l.start_time < m.start_time
                          \/ l.start_time = m.start_time /\ l.id <= m.id
         IN <<LogRow(first)>> \o OrderByStart(rows \ {first})

\* SUM(duration) over a set of log rows.
RECURSIVE SumDuration(_)
SumDuration(rows) ==
    IF rows = {} THEN 0
    ELSE LET l == CHOOSE x \in rows : TRUE
         IN l.duration + SumDuration(rows \ {l})

\* Text comparison of two names (BINARY collation): a space sorts before "a".
CharRank(c) == IF c = Space THEN 0 ELSE 1
RECURSIVE NameLess(_, _)
NameLess(a, b) ==
    IF b = <<>> THEN FALSE
    ELSE IF a = <<>> THEN TRUE
    ELSE IF Head(a) # Head(b) THEN CharRank(Head(a)) < CharRank(Head(b))
    ELSE NameLess(Tail(a), Tail(b))

\* Mutant of SubjectKey: rows are grouped by subject, not by subject name.
SubjectKey_BySubject(l) == <<l.subject_id>>

\* GROUP BY s.name: the key of a log row in the summaries by subject.
SubjectKey(l) == JoinedName(subjects, l.subject_id)

\* SELECT s.name, SUM(l.duration) ... GROUP BY s.name
GroupsBySubject(rows) ==
    {[name |-> JoinedName(subjects, (CHOOSE l \in rows : SubjectKey(l) = k).subject_id),
      total_sec |-> SumDuration({l \in rows : SubjectKey(l) = k})] :
        k \in {SubjectKey(l) : l \in rows}}

\* ORDER BY total_sec DESC: groups with the same total come with the greater
\* name first.
RECURSIVE OrderByTotalDesc(_)
OrderByTotalDesc(groups) ==
    IF groups = {} THEN <<>>
    ELSE LET first == CHOOSE g \in groups : \A h \in groups :
                          \/ g.total_sec > h.total_sec
                          \/ g.total_sec = h.total_sec /\ ~NameLess(g.name, h.name)
         IN <<first>> \o OrderByTotalDesc(groups \ {first})

\* Mutant of GroupsByDay: a group takes the duration of one of its rows.
GroupsByDay_OneRowEach(rows) ==
    {[dia |-> d,
      total_sec |-> (CHOOSE l \in rows : DateOf(l.start_time) = d).duration] :
        d \in {DateOf(l.start_time) : l \in rows}}

\* SELECT DATE(start_time) AS dia, SUM(duration) ... GROUP BY DATE(start_time)
GroupsByDay(rows) ==
    {[dia |-> d,
      total_sec |-> SumDuration({l \in rows : DateOf(l.start_time) = d})] :
        d \in {DateOf(l.start_time) : l \in rows}}

\* ORDER BY DATE(start_time)
RECURSIVE OrderByDay(_)
OrderByDay(groups) ==
    IF groups = {} THEN <<>>
    ELSE LET first == CHOOSE g \in groups : \A h \in groups : g.dia <= h.dia
         IN <<first>> \o OrderByDay(groups \ {first})

get_logs_day(day_iso) == OrderByStart({l \in logs : OnDay(l, day_iso)})
get_logs_range(start_iso, end_iso) ==
    OrderByStart({l \in logs : InRange(l, start_iso, end_iso)})
summary_by_subject_day(day_iso) ==
    OrderByTotalDesc(GroupsBySubject({l \in logs : OnDay(l, day_iso)}))
summary_by_subject_range(start_iso, end_iso) ==
    OrderByTotalDesc(GroupsBySubject({l \in logs : InRange(l, start_iso, end_iso)}))
summary_by_day(start_iso, end_iso) ==
    OrderByDay(GroupsByDay({l \in logs : InRange(l, start_iso, end_iso)}))

\* What a report call did: its name, its arguments and the rows it returned.
Reported(op, arg, rows) == [op |-> op, arg |-> arg, rows |-> rows]

\* add_log with any subject of the store, start instant and duration; the
\* row ends duration seconds after it starts, possibly on the next day.
LogWritten ==
    /\ \E s \in subjects, start \in StartTimes, duration \in Durations :
         /\ seq_logs < MaxRows
         /\ logs' = logs \cup {NewLog(s.project_id, s.id, start * SubSec,
                                      (start + duration) * SubSec, duration)}
         /\ seq_logs' = seq_logs + 1
         /\ last' = Reported("add_log", <<seq_logs + 1>>, <<>>)
    /\ UNCHANGED <<tables, app>>

LogsDay ==
    /\ \E d \in Days : last' = Reported("get_logs_day", <<d>>, get_logs_day(d))
    /\ UNCHANGED <<store, app>>
LogsRange ==
    /\ \E a \in Days, b \in Days :
         last' = Reported("get_logs_range", <<a, b>>, get_logs_range(a, b))
    /\ UNCHANGED <<store, app>>
SummaryBySubjectDay ==
    /\ \E d \in Days :
         last' = Reported("summary_by_subject_day", <<d>>, summary_by_subject_day(d))
    /\ UNCHANGED <<store, app>>
SummaryBySubjectRange ==
    /\ \E a \in Days, b \in Days :
         last' = Reported("summary_by_subject_range", <<a, b>>,
                          summary_by_subject_range(a, b))
    /\ UNCHANGED <<store, app>>
SummaryByDay ==
    /\ \E a \in Days, b \in Days :
         last' = Reported("summary_by_day", <<a, b>>, summary_by_day(a, b))
    /\ UNCHANGED <<store, app>>

\* A store with two projects, "a" and "aa", and three subjects: "a" and "aa"
\* under the first project and another "a" under the second; no log yet.
ReportInit ==
    /\ projects = {[id |-> 1, name |-> <<"a">>], [id |-> 2, name |-> <<"a", "a">>]}
    /\ subjects = {[id |-> 1, project_id |-> 1, name |-> <<"a">>],
                   [id |-> 2, project_id |-> 1, name |-> <<"a", "a">>],
                   [id |-> 3, project_id |-> 2, name |-> <<"a">>]}
    /\ logs = {}
    /\ seq_projects = 2 /\ seq_subjects = 3 /\ seq_logs = 0
    /\ now = 0
    /\ timers = {}
    /\ work_minutes = 1 /\ short_break_minutes = 1
    /\ long_break_minutes = 1 /\ cycles_for_long_break = 1
    /\ session = "Idle" /\ remaining = SecondsPerMinute /\ completed_cycles = 0
    /\ current_start = NoTime /\ is_running = FALSE /\ after_id = NoTime
    /\ current_project_id = None /\ current_subject_id = None
    /\ cb_project = None /\ cb_subject = None
    /\ ui_projects = {} /\ ui_subjects = {}
    /\ alert_open = FALSE /\ alert_message = "" /\ manager_open = FALSE
    /\ audit = [works |-> 0, fixed |-> TRUE, run |-> Spoiled, base |-> 0,
                spent |-> 0, exact |-> TRUE]
    /\ last = Reported("none", <<>>, <<>>)

ReportNext ==
    \/ LogWritten
    \/ LogsDay
    \/ LogsRange
    \/ SummaryBySubjectDay
    \/ SummaryBySubjectRange
    \/ SummaryByDay

ReportSpec == ReportInit /\ [][ReportNext]_vars

\* ------------------------------------------------------------ week range
\* The week of a date, as WeekAgendaWindow._get_week_range and
\* export_week_pdf_from_calendar derive it.  A date text "yyyy-mm-dd" is the
\* tuple <<year, month, day>> of a calendar scaled to MonthsPerYear months of
\* DaysPerMonth days; a date is its ordinal, counted from 1 for the first day
\* of year 1, which is a Monday as date(1, 1, 1) is.  Weeks have seven days.
DaysPerMonth == 5
MonthsPerYear == 2
MaxYear == 7
DaysPerWeek == 7

DateTexts == (1..MaxYear) \X (1..MonthsPerYear) \X (1..DaysPerMonth)

\* datetime.strptime(text, "%Y-%m-%d").date()
StrpDate(text) ==
    ((text[1] - 1) * MonthsPerYear + (text[2] - 1)) * DaysPerMonth + text[3]

\* date.isoformat()
IsoFormat(date) ==
    <<(date - 1) \div (MonthsPerYear * DaysPerMonth) + 1,
      (((date - 1) \div DaysPerMonth) % MonthsPerYear) + 1,
      ((date - 1) % DaysPerMonth) + 1>>

\* Mutant of Weekday: Sunday is day 0.
Weekday_SundayFirst(date) == date % DaysPerWeek

\* date.weekday(): Monday is 0, Sunday is 6.
Weekday(date) == (date - 1) % DaysPerWeek

\* start = day - timedelta(days=day.weekday()); end = start + timedelta(days=6)
WeekRange(text) ==
    LET day == StrpDate(text)
        start == day - Weekday(day)
        end == start + 6
    IN <<IsoFormat(start), IsoFormat(end)>>

\* WeekAgendaWindow._get_week_range with the date selected in the calendar.
GetWeekRange ==
    /\ \E selected \in DateTexts :
         last' = [op |-> "_get_week_range", arg |-> selected,
                  returned |-> WeekRange(selected)]
    /\ UNCHANGED <<store, app>>

\* export_week_pdf_from_calendar(parent, db, day_iso): returned is the range
\* it hands to export_week_pdf.
ExportWeekFromCalendar ==
    /\ \E day_iso \in DateTexts :
         last' = [op |-> "export_week_pdf_from_calendar", arg |-> day_iso,
                  returned |-> WeekRange(day_iso)]
    /\ UNCHANGED <<store, app>>

WeekInit ==
    /\ projects = {} /\ subjects = {} /\ logs = {}
    /\ seq_projects = 0 /\ seq_subjects = 0 /\ seq_logs = 0
    /\ now = 0
    /\ timers = {}
    /\ work_minutes = 1 /\ short_break_minutes = 1
    /\ long_break_minutes = 1 /\ cycles_for_long_break = 1
    /\ session = "Idle" /\ remaining = SecondsPerMinute /\ completed_cycles = 0
    /\ current_start = NoTime /\ is_running = FALSE /\ after_id = NoTime
    /\ current_project_id = None /\ current_subject_id = None
    /\ cb_project = None /\ cb_subject = None
    /\ ui_projects = {} /\ ui_subjects = {}
    /\ alert_open = FALSE /\ alert_message = "" /\ manager_open = FALSE
    /\ audit = [works |-> 0, fixed |-> TRUE, run |-> Spoiled, base |-> 0,
                spent |-> 0, exact |-> TRUE]
    /\ last = [op |-> "none", arg |-> <<1, 1, 1>>, returned |-> <<>>]

WeekNext ==
    \/ GetWeekRange
    \/ ExportWeekFromCalendar

WeekSpec == WeekInit /\ [][WeekNext]_vars

\* ------------------------------------------------ two projects selected
\* The timer over a store left by an earlier run with two projects: the
\* first with the subject DefaultName, the second with a subject of the same
\* name and another one.  The spinboxes keep their values.
OtherName == 2
TwoProjects ==
    /\ projects = {[id |-> 1, name |-> DefaultName], [id |-> 2, name |-> OtherName]}
    /\ subjects = {[id |-> 1, project_id |-> 1, name |-> DefaultName],
                   [id |-> 2, project_id |-> 2, name |-> DefaultName],
                   [id |-> 3, project_id |-> 2, name |-> OtherName]}
    /\ seq_projects = 2
    /\ seq_subjects = 3

SelectInit ==
    /\ now \in 0..(SubSec - 1)
    /\ timers = {}
    /\ work_minutes \in WorkMinutes
    /\ short_break_minutes = 1
    /\ long_break_minutes = 1
    /\ cycles_for_long_break = MaxCycles
    /\ session = "Idle"
    /\ remaining = work_minutes * SecondsPerMinute
    /\ completed_cycles = 0
    /\ current_start = NoTime
    /\ is_running = FALSE
    /\ after_id = NoTime
    /\ TwoProjects
    /\ logs = {}
    /\ seq_logs = 0
    /\ ui_projects = projects
    /\ cb_project = FirstByName(projects).name
    /\ current_project_id = FirstByName(projects).id
    /\ ui_subjects = SubjectsOf(subjects, current_project_id)
    /\ cb_subject = FirstByName(ui_subjects).name
    /\ current_subject_id = FirstByName(ui_subjects).id
    /\ alert_open = FALSE /\ alert_message = ""
    /\ manager_open = FALSE
    /\ audit = [works |-> 0, fixed |-> TRUE, run |-> Spoiled, base |-> 0,
                spent |-> 0, exact |-> TRUE]
    /\ last = NoOperation

SelectNext ==
    \/ Start
    \/ Tick
    \/ AlertAnswer
    \/ Pause
    \/ ResetTimer
    \/ Advance
    \/ SelectProject
    \/ SelectSubject
    \/ OpenManager
    \/ ManagerDeleteProject
    \/ CloseManager

SelectSpec == SelectInit /\ [][SelectNext]_vars

\* ------------------------------------------------- the manager's buttons
\* The same store of two projects with the manager window's delete buttons,
\* the timer running behind the modal window.
ManagerInit == SelectInit /\ work_minutes = 1

ManagerNext ==
    \/ Start
    \/ Tick
    \/ AlertAnswer
    \/ Pause
    \/ Advance
    \/ OpenManager
    \/ ManagerDeleteProject
    \/ ManagerDeleteSubject
    \/ CloseManager

ManagerSpec == ManagerInit /\ [][ManagerNext]_vars

\* ================================================================ claims
Breaks == {"ShortBreak", "LongBreak"}
Selected == current_project_id # None /\ current_subject_id # None
TextsChosen == cb_project # None /\ cb_subject # None

\* Steps in which _finish_session runs: the tick that finds remaining at zero,
\* or a start() that resumes a phase paused at zero and runs that tick itself.
TickAtZero == Tick /\ is_running /\ remaining <= 0
ResumeAtZero ==
    /\ Start
    /\ ~is_running /\ session # "Idle" /\ remaining <= 0 /\ TextsChosen
FinishStep == TickAtZero \/ ResumeAtZero

C2_CompletionLogsOnce ==
    [][ (TickAtZero /\ session = "Work") =>
          IF WholeSeconds(current_start, now) > 0 /\ Selected
          THEN \E l \in logs' \ logs :
                 /\ logs' = logs \cup {l}
                 /\ l.project_id = current_project_id
                 /\ l.subject_id = current_subject_id
                 /\ l.duration = l.end_time - l.start_time
          ELSE logs' = logs ]_vars

\* ------------------------------------------------------------------- C3
\* C3: a step adds log rows only if it is pause() on a running Work phase or
\* the tick completing a Work phase, with whole seconds > 0 and a project
\* and a subject selected, and then it adds one row; start(), the dialog's
\* answer, a tick that only decrements, pause() or completion during a break
\* and configuration edits leave the logs as they are.
C3_LogsGrowOnlyOnWorkEnd ==
    [][ /\ ~(logs' \subseteq logs) =>
             /\ (Pause /\ is_running) \/ TickAtZero
             /\ session = "Work"
             /\ WholeSeconds(current_start, now) > 0
             /\ Selected
             /\ Cardinality(logs' \ logs) = 1
             /\ logs \subseteq logs'
        /\ ( \/ Start
             \/ AlertAnswer
             \/ SetConfig
             \/ (Tick /\ remaining > 0)
             \/ ((Pause \/ Tick) /\ session \in Breaks) ) => logs' = logs ]_vars

\* A running break was paused after more than a second, and no row was added.
C3_Witness ==
    /\ last.op = "pause" /\ last.running /\ last.session \in Breaks
    /\ last.elapsed >= 1
    /\ Selected
    /\ logs = {}

\* ------------------------------------------------------------------- C4
\* C4: pause() on a running Work phase, k >= 1 whole seconds after the
\* start() that set current_start and with a project and a subject selected,
\* adds exactly one row, with duration k and the stored seconds of
\* current_start and of now, and leaves session, remaining and
\* completed_cycles as they were, with is_running false.
C4_PauseLogsPartial ==
    [][ (Pause /\ is_running /\ session = "Work" /\ Selected
           /\ WholeSeconds(current_start, now) >= 1) =>
          /\ logs' = logs \cup
               {[id |-> seq_logs + 1,
                 project_id |-> current_project_id,
                 subject_id |-> current_subject_id,
                 start_time |-> IsoSeconds(current_start),
                 end_time |-> IsoSeconds(now),
                 duration |-> WholeSeconds(current_start, now)]}
          /\ Cardinality(logs') = Cardinality(logs) + 1
          /\ session' = "Work"
          /\ remaining' = remaining
          /\ completed_cycles' = completed_cycles
          /\ is_running' = FALSE ]_vars

\* A Work phase paused one whole second after it was started: one row of 1 s.
C4_Witness ==
    /\ last.op = "pause" /\ last.running /\ last.session = "Work"
    /\ last.elapsed = 1
    /\ session = "Work" /\ ~is_running /\ remaining = last.remaining
    /\ \E l \in logs : l.id = seq_logs /\ l.duration = 1

\* ------------------------------------------------------------------- C5
\* C5: reset_timer() from any state gives session Idle, is_running false,
\* completed_cycles 0, remaining = work_minutes * 60 of the configuration in
\* force, current_start unset and no tick pending, and leaves the store as
\* it is.
C5_ResetDiscards ==
    [][ ResetTimer =>
          /\ session' = "Idle"
          /\ is_running' = FALSE
          /\ completed_cycles' = 0
          /\ remaining' = work_minutes * SecondsPerMinute
          /\ current_start' = NoTime
          /\ timers' = {}
          /\ UNCHANGED store ]_vars

\* A running Work phase with a whole second elapsed and a valid selection was
\* reset, and the store holds no row for it.
C5_Witness ==
    /\ last.op = "reset" /\ last.running /\ last.session = "Work"
    /\ last.elapsed >= 1
    /\ Selected
    /\ session = "Idle" /\ logs = {} /\ seq_logs = 0

\* ------------------------------------------------------------------- C6
\* C6: in a run from a start out of Idle with an existing project and subject
\* selected, every tick punctual, the configuration untouched and no pause or
\* reset, the rows added since that start are as many as the Work phases
\* completed since, each with duration work_minutes * 60; and in the break
\* that follows the C-th of them the session is LongBreak with
\* completed_cycles = 0.
C6_FullCycles ==
    audit.run # Spoiled =>
      /\ seq_logs - audit.base = audit.run
      /\ Cardinality({l \in logs : l.id > audit.base}) = audit.run
      /\ \A l \in logs :
           l.id > audit.base => l.duration = work_minutes * SecondsPerMinute
      /\ (audit.run = cycles_for_long_break /\ session # "Work") =>
           session = "LongBreak" /\ completed_cycles = 0

\* Two full Work phases under C = 2: two rows, and the long break is due.
C6_Witness ==
    /\ audit.run = 2 /\ cycles_for_long_break = 2
    /\ seq_logs - audit.base = 2
    /\ session = "LongBreak" /\ completed_cycles = 0 /\ alert_open

\* ------------------------------------------------------------------- C7
\* C7 as claimed: start() out of Idle returns with the full work duration.
C7_StartFromIdleFull ==
    [][ (Start /\ session = "Idle" /\ ~is_running /\ TextsChosen) =>
          /\ session' = "Work"
          /\ is_running' = TRUE
          /\ current_start' = now
          /\ completed_cycles' = 0
          /\ remaining' = work_minutes * SecondsPerMinute ]_vars

\* C7 as amended: start() out of Idle with a project and a subject chosen
\* returns with session Work, is_running true, current_start = now,
\* completed_cycles 0, the next tick scheduled one second ahead, and
\* remaining = work_minutes * 60 - 1: start() runs the first tick itself.
C7_StartFromIdle ==
    [][ (Start /\ session = "Idle" /\ ~is_running /\ TextsChosen) =>
          /\ session' = "Work"
          /\ is_running' = TRUE
          /\ current_start' = now
          /\ completed_cycles' = 0
          /\ remaining' = work_minutes * SecondsPerMinute - 1
          /\ timers' = {now + SubSec} ]_vars

\* start() has just run out of Idle, with two minutes configured.
C7_Witness ==
    /\ last.op = "start" /\ last.session = "Idle" /\ ~last.running
    /\ session = "Work" /\ is_running /\ current_start = now
    /\ work_minutes = 2
    /\ remaining = work_minutes * SecondsPerMinute - 1

\* ------------------------------------------------------------------- C8
\* start() on a phase that is not running and not Idle, from the button or
\* from the dialog's "yes".
StartPaused ==
    /\ Start \/ (AlertAnswer /\ last'.op = "yes")
    /\ session # "Idle" /\ ~is_running /\ TextsChosen

\* C8 as claimed: such a start() changes current_start and is_running only.
C8_ResumeChangesNothingElse ==
    [][ StartPaused =>
          /\ remaining' = remaining
          /\ completed_cycles' = completed_cycles
          /\ session' = session
          /\ current_start' = now
          /\ is_running' = TRUE ]_vars

\* C8 as amended: such a start() re-reads the selected ids from the two
\* comboboxes and runs one tick at once.  With remaining > 0 it keeps session
\* and completed_cycles, sets current_start = now and is_running = true, and
\* leaves remaining one less than before the call; with remaining = 0 it
\* completes the phase instead.  The logs are unchanged either way.
C8_Resume ==
    [][ StartPaused =>
          /\ current_project_id' = Lookup(ui_projects, cb_project)
          /\ current_subject_id' = Lookup(ui_subjects, cb_subject)
          /\ logs' = logs
          /\ IF remaining > 0
             THEN /\ session' = session
                  /\ completed_cycles' = completed_cycles
                  /\ remaining' = remaining - 1
                  /\ current_start' = now
                  /\ is_running' = TRUE
             ELSE /\ session' # session
                  /\ is_running' = FALSE
                  /\ current_start' = NoTime ]_vars

\* A paused Work phase with two seconds left has just been resumed.
C8_Witness ==
    /\ last.op = "start" /\ last.session = "Work" /\ ~last.running
    /\ last.remaining = 2 /\ last.cycles = 1
    /\ session = "Work" /\ is_running /\ remaining = 1 /\ completed_cycles = 1

\* ------------------------------------------------------------------- C9
\* C9 as claimed: no state has the clock running with remaining at zero.
C9_NeverRunningAtZero == ~(is_running /\ remaining = 0)

\* C9 as amended: the tick that finds remaining = 0, one second after the
\* tick that counted it down to zero, is the one that stops the clock; it
\* finalizes the interval and applies the cycle rule in the same step, unless
\* the store rejects the row, and then session and current_start stay.  A
\* tick that finds remaining > 0 only counts down.  While the clock is not
\* running, remaining changes only in start() and reset_timer().
C9_TickAtZeroFinishes ==
    [][ /\ (Tick /\ is_running /\ remaining > 0) =>
             /\ remaining' = remaining - 1
             /\ is_running' = TRUE
             /\ alert_open' = alert_open
             /\ UNCHANGED <<session, completed_cycles, current_start, logs>>
        /\ (Tick /\ is_running /\ remaining = 0) =>
             /\ is_running' = FALSE
             /\ timers' = {}
             /\ \/ /\ alert_open'
                   /\ current_start' = NoTime
                   /\ session' = NextSession(session, completed_cycles)
                   /\ completed_cycles' = NextCycles(session, completed_cycles)
                \/ /\ ~ForeignKeysHold(current_project_id, current_subject_id)
                   /\ UNCHANGED <<session, remaining, completed_cycles,
                                  current_start, logs>>
        /\ (~is_running /\ remaining' # remaining) =>
             Start \/ AlertAnswer \/ ResetTimer
        /\ remaining' >= 0 ]_vars

\* The clock had been running at zero when the tick came that finished Work.
C9_Witness ==
    /\ last.op = "tick" /\ last.running /\ last.remaining = 0
    /\ last.session = "Work"
    /\ ~is_running /\ alert_open /\ session \in Breaks

\* ------------------------------------------------------------------ C10
\* C10: the completion of a ShortBreak or LongBreak enters Work with
\* remaining = work_minutes * 60 at the dialog, keeps completed_cycles
\* whatever its value, and adds no log row.
C10_BreakCompletion ==
    [][ (FinishStep /\ session \in Breaks) =>
          /\ session' = "Work"
          /\ remaining' = work_minutes * SecondsPerMinute
          /\ completed_cycles' = completed_cycles
          /\ logs' = logs
          /\ alert_open'
          /\ is_running' = FALSE ]_vars

\* A short break has just completed with one cycle counted, two minutes of
\* work configured.
C10_Witness ==
    /\ last.op = "tick" /\ last.session = "ShortBreak" /\ last.remaining = 0
    /\ session = "Work" /\ completed_cycles = 1 /\ alert_open
    /\ work_minutes = 2 /\ remaining = 2 * SecondsPerMinute

\* ------------------------------------------------------------------ C11
\* What start() would resolve from the two comboboxes leaves the project or
\* the subject unset: a text is empty, or it names nothing in the lists.
NothingSelected ==
    \/ Lookup(ui_projects, cb_project) = None
    \/ Lookup(ui_subjects, cb_subject) = None

\* C11: start() on a clock that is not running, while no project or no
\* subject is selected, changes nothing: session, remaining,
\* completed_cycles, is_running, current_start and the logs stay as they are
\* and no tick is scheduled.
C11_StartNeedsSelection ==
    [][ (Start /\ ~is_running /\ NothingSelected) =>
          /\ UNCHANGED <<session, remaining, completed_cycles, is_running,
                         current_start, logs, seq_logs>>
          /\ timers' = timers ]_vars

\* ------------------------------------------------------------------ C12
\* C12: in every reachable state in which the clock is not running,
\* current_start is unset: pause() and the completing tick clear it whether
\* a log row was written, skipped, or rejected by the store.
C12_StoppedClockHasNoStart == ~is_running => current_start = NoTime

\* ------------------------------------------------------------------ C13
\* The store refuses the row the completing tick wants to write.
Rejected ==
    /\ FinishLogWanted(session, current_start, current_project_id, current_subject_id)
    /\ ~ForeignKeysHold(current_project_id, current_subject_id)
\* A step that completes the phase: the cycle rule is applied.
Completion == (TickAtZero /\ ~Rejected) \/ ResumeAtZero
\* A step in which the next-session dialog is raised.
Alerted == ~alert_open /\ alert_open'

C14_ConfigNeverRescales ==
    [][ /\ (SetConfig /\ session # "Idle") =>
             /\ UNCHANGED <<session, remaining, completed_cycles, is_running,
                            current_start, timers, after_id>>
        /\ remaining' \notin {remaining, remaining - 1} =>
             \/ (Start \/ AlertAnswer) /\ session = "Idle"
             \/ Completion
             \/ ResetTimer
        /\ ((Start /\ session = "Idle" /\ is_running') \/ ResetTimer) =>
             remaining' \in {work_minutes * SecondsPerMinute,
                             work_minutes * SecondsPerMinute - 1}
        /\ Completion => remaining' = NextRemaining(session, completed_cycles) ]_vars

\* The work duration was raised from one minute to two while a Work phase
\* was running, and the phase kept the remaining time it had.
C14_Witness ==
    /\ last.op = "config" /\ last.work = 1 /\ work_minutes = 2
    /\ last.session = "Work" /\ last.running
    /\ session = "Work" /\ is_running /\ remaining = last.remaining
    /\ remaining < SecondsPerMinute

\* ------------------------------------------------------------------ C15
\* C15: pause() while the clock is not running changes nothing, in every
\* session: session, remaining, completed_cycles, is_running, current_start,
\* the pending callbacks and the store stay as they are.
C15_PauseWhenStoppedIsNoOp ==
    [][ (Pause /\ ~is_running) =>
          /\ UNCHANGED <<session, remaining, completed_cycles, is_running,
                         current_start>>
          /\ UNCHANGED <<timers, after_id>>
          /\ UNCHANGED store ]_vars

\* pause() was called on a Work phase that was already paused, with a row in
\* the store from the first pause.
C15_Witness ==
    /\ last.op = "pause" /\ ~last.running /\ last.session = "Work"
    /\ session = "Work" /\ ~is_running /\ remaining = last.remaining
    /\ logs # {}

\* ------------------------------------------------------------------ C16
\* The subjects that belong to project p, by id.
SubjectIdsOf(p) == {x.id : x \in {y \in subjects : y.project_id = p}}

\* C16: after delete_project(p) no project p, no subject of p and no log of
\* p or of a subject that belonged to p is left (get_subjects(p) is empty),
\* and every other project, every subject of another project and every log
\* whose project and subject are both outside p is still there, unchanged;
\* nothing is added.
C16_DeleteProjectCascades ==
    [][ \A p \in ProjectIdArgs : DbDeleteProject(p) =>
          /\ p \notin {q.id : q \in projects'}
          /\ SubjectsOf(subjects', p) = {}
          /\ \A l \in logs' : l.project_id # p /\ l.subject_id \notin SubjectIdsOf(p)
          /\ \A q \in projects : q.id # p => q \in projects'
          /\ \A x \in subjects : x.project_id # p => x \in subjects'
          /\ \A l \in logs :
               (l.project_id # p /\ l.subject_id \notin SubjectIdsOf(p)) => l \in logs'
          /\ projects' \subseteq projects
          /\ subjects' \subseteq subjects
          /\ logs' \subseteq logs ]_vars

\* delete_project(1) found two projects, two subjects and two logs, and left
\* project 2 with its subject and its log.
C16_Witness ==
    /\ last.op = "delete_project" /\ last.arg = <<1>> /\ last.found = <<2, 2, 2>>
    /\ Cardinality(projects) = 1 /\ Cardinality(subjects) = 1
    /\ Cardinality(logs) = 1
    /\ \A l \in logs : l.project_id = 2

\* ------------------------------------------------------------------ C17
\* C17: after delete_subject(s) the subject s and exactly the logs with
\* subject_id = s are gone; the projects, the other subjects and all other
\* logs are unchanged.
C17_DeleteSubjectCascades ==
    [][ \A s \in SubjectIdArgs : DbDeleteSubject(s) =>
          /\ subjects' = {x \in subjects : x.id # s}
          /\ logs' = {l \in logs : l.subject_id # s}
          /\ projects' = projects ]_vars

\* delete_subject(1) found two subjects of one project and two logs, and left
\* the project, the other subject and the other subject's log.
C17_Witness ==
    /\ last.op = "delete_subject" /\ last.arg = <<1>> /\ last.found = <<1, 2, 2>>
    /\ Cardinality(projects) = 1 /\ Cardinality(subjects) = 1
    /\ Cardinality(logs) = 1
    /\ \A l \in logs : l.subject_id = 2

\* ------------------------------------------------------------------ C18
\* C18: add_project with a name that is not empty once stripped returns the
\* id of the one project that has the stripped name; if that project was
\* already there the call adds nothing and returns the id it had, which is
\* the id the previous call returned when that call gave the same name up to
\* surrounding whitespace.  The same holds for add_subject under an existing
\* project, per (project_id, name): a subject of that name under another
\* project is another row with another id, and stays.
C18_CreationIsIdempotent ==
    [][ /\ \A raw \in Texts : (DbAddProject(raw) /\ Strip(raw) # <<>>) =>
             LET name == Strip(raw)
                 had == {p \in projects : p.name = name}
                 has == {p \in projects' : p.name = name}
             IN /\ Cardinality(has) = 1
                /\ \A p \in has : last'.returned = p.id
                /\ last'.raised = ""
                /\ projects \subseteq projects'
                /\ had # {} => projects' = projects /\ has = had
                /\ had = {} => last'.returned \notin ProjectIds
                /\ (last.op = "add_project" /\ Strip(last.name) = name) =>
                     last'.returned = last.returned
        /\ \A project_id \in ProjectIds, raw \in Texts :
             (DbAddSubject(project_id, raw) /\ Strip(raw) # <<>>) =>
             LET name == Strip(raw)
                 had == {x \in subjects : x.project_id = project_id /\ x.name = name}
                 has == {x \in subjects' : x.project_id = project_id /\ x.name = name}
             IN /\ Cardinality(has) = 1
                /\ \A x \in has : last'.returned = x.id
                /\ last'.raised = ""
                /\ subjects \subseteq subjects'
                /\ had # {} => subjects' = subjects /\ has = had
                /\ had = {} => last'.returned \notin SubjectIds
                /\ (last.op = "add_subject" /\ last.arg = <<project_id>>
                      /\ Strip(last.name) = name) =>
                     last'.returned = last.returned ]_vars

\* add_project(" a") found the project "a" with id 1 and returned 1, leaving
\* that one project.
C18_Witness ==
    /\ last.op = "add_project" /\ last.name = <<Space, "a">>
    /\ last.found[1] = 1 /\ last.returned = 1
    /\ projects = {[id |-> 1, name |-> <<"a">>]}

\* ------------------------------------------------------------------ C19
\* The names held by the store.
StoredNames == {p.name : p \in projects} \cup {x.name : x \in subjects}

\* C19: add_project and add_subject with a name that is empty once stripped
\* raise ValueError and leave projects, subjects and logs as they are; and
\* after any call no stored name is empty or begins or ends with whitespace.
C19_EmptyNamesRejected ==
    [][ /\ \A raw \in Texts : (Strip(raw) = <<>> /\ DbAddProject(raw)) =>
             /\ last'.raised = "ValueError"
             /\ last'.returned = None
             /\ UNCHANGED store
        /\ \A project_id \in ProjectIdArgs, raw \in Texts :
             (Strip(raw) = <<>> /\ DbAddSubject(project_id, raw)) =>
             /\ last'.raised = "ValueError"
             /\ last'.returned = None
             /\ UNCHANGED store
        /\ \A name \in StoredNames' :
             /\ name # <<>>
             /\ Head(name) # Space
             /\ name[Len(name)] # Space ]_vars

\* add_subject(1, "  ") was refused in a store that holds a project, a
\* subject and a log, and holds them still.
C19_Witness ==
    /\ last.op = "add_subject" /\ last.arg = <<1>> /\ last.name = <<Space, Space>>
    /\ last.raised = "ValueError" /\ last.found = <<1, 1, 1>>
    /\ Cardinality(projects) = 1 /\ Cardinality(subjects) = 1
    /\ Cardinality(logs) = 1

\* ------------------------------------------------------------------ C20
\* C20: add_subject with a proper name under a project id that is not in the
\* store, and add_log with a project id or a subject id that is not in the
\* store, raise IntegrityError, return no id and leave the store, its row
\* counters included, as it is.
C20_MissingParentRejected ==
    [][ /\ \A project_id \in ProjectIdArgs \ ProjectIds, raw \in Texts :
             (Strip(raw) # <<>> /\ DbAddSubject(project_id, raw)) =>
             /\ last'.raised = "IntegrityError"
             /\ last'.returned = None
             /\ UNCHANGED store
        /\ \A project_id \in ProjectIdArgs, subject_id \in SubjectIdArgs :
             (DbAddLog(project_id, subject_id)
                /\ (project_id \notin ProjectIds \/ subject_id \notin SubjectIds)) =>
             /\ last'.raised = "IntegrityError"
             /\ last'.returned = None
             /\ UNCHANGED store ]_vars

\* add_log(1, 2) was refused: project 1 exists, subject 2 was deleted; the
\* log written before is still the only one.
C20_Witness ==
    /\ last.op = "add_log" /\ last.arg = <<1, 2>> /\ last.raised = "IntegrityError"
    /\ 1 \in ProjectIds /\ 2 \notin SubjectIds /\ seq_subjects = 2
    /\ Cardinality(logs) = 1 /\ last.found[3] = 1

\* ------------------------------------------------------------------ C24
\* C24: every log row of the store has duration > 0, end_time > start_time
\* and duration = end_time - start_time, on the stored second-precision
\* timestamps, whatever the sub-second instants of its start and its end.
C24_LogsAreExact ==
    \A l \in logs :
        /\ l.duration > 0
        /\ l.end_time > l.start_time
        /\ l.duration = l.end_time - l.start_time

\* ------------------------------------------------------------------ C28
\* C28: after any interleaving of start(), pause(), reset(), tick callbacks
\* and completions (the start() answered "yes" from inside a completion
\* included), at most one tick callback is pending and one is pending only
\* while is_running holds; start() on a running timer schedules nothing and
\* changes no state; pause() and reset() leave no callback behind, so no
\* tick scheduled before them counts remaining down afterwards.
C28_OnePendingTick ==
    /\ [](Cardinality(timers) <= 1 /\ (timers # {} => is_running))
    /\ [][ /\ (Start /\ is_running) =>
               UNCHANGED <<config, clock, timers, after_id, selection, store>>
           /\ (Pause \/ ResetTimer) => timers' = {}
           /\ (Tick /\ last.op \in {"pause", "reset"}) => remaining' >= remaining
         ]_vars

\* The start() answered "yes" in the dialog of a completion has scheduled
\* the one pending tick, in a run whose earlier Work phase was paused and
\* resumed (a log row shorter than the Work phase is in the store).
C28_Witness ==
    /\ last.op = "yes"
    /\ is_running /\ Cardinality(timers) = 1 /\ after_id \in timers
    /\ \E l \in logs : l.duration < work_minutes * SecondsPerMinute

\* ------------------------------------------------------------------ C29
\* C29: in every reachable state remaining >= 0 (a tick that finds zero
\* finishes the phase instead of counting down), and while
\* cycles_for_long_break = C >= 1 has not been edited since the count began,
\* 0 <= completed_cycles < C between operations.
C29_SessionBounds ==
    /\ remaining >= 0
    /\ completed_cycles >= 0
    /\ (audit.fixed /\ cycles_for_long_break >= 1) =>
           completed_cycles < cycles_for_long_break

\* A tick has found a running second Work phase at zero with C = 2: it
\* counted nothing down and the counter went from 1 back to 0.
C29_Witness ==
    /\ last.op = "tick" /\ last.running /\ last.remaining = 0
    /\ last.session = "Work" /\ last.cycles = 1
    /\ cycles_for_long_break = 2 /\ audit.fixed
    /\ session = "LongBreak" /\ completed_cycles = 0 /\ remaining >= 0

\* ------------------------------------------------------------------ C30
\* C30: with every tick run at the instant it is due and no spinbox edited,
\* the seconds of the log rows written for one Work phase, from the step
\* that entered Work to its completion with any pauses and resumes in
\* between, never exceed work_minutes * 60.
C30_WorkNeverOverLogged ==
    audit.exact => audit.spent <= work_minutes * SecondsPerMinute

\* A Work phase of two seconds has completed on time after a pause and a
\* resume: the row of the pause and the row of the completion add up to it.
C30_Witness ==
    /\ last.op = "tick" /\ last.session = "Work" /\ session \in Breaks
    /\ audit.exact /\ audit.spent = 2 /\ work_minutes = 2
    /\ \E l \in logs : l.id = seq_logs /\ l.duration = 1

\* ------------------------------------------------------------------ C25
\* C25: a log row is immutable.  In every step a log id present before and
\* after has the same project_id, subject_id, start_time, end_time and
\* duration; a row disappears only in a delete_project or delete_subject
\* step that removes its project or its subject; and a new row takes an id
\* that no row, removed or not, has had before.
LogIds == {l.id : l \in logs}
C25_LogsImmutable ==
    [][ /\ \A l \in logs : \A m \in logs' : m.id = l.id => m = l
        /\ \A l \in logs :
             l.id \notin LogIds' =>
               /\ last'.op \in {"delete_project", "delete_subject"}
               /\ l.project_id \notin ProjectIds' \/ l.subject_id \notin SubjectIds'
               /\ l.project_id \in ProjectIds /\ l.subject_id \in SubjectIds
        /\ \A m \in logs' : m.id \notin LogIds => m.id > seq_logs
        /\ seq_logs' >= seq_logs
        /\ \A m \in logs' : m.id <= seq_logs'
      ]_vars

\* add_log has just written row 2 after row 1 was removed by a cascade: the
\* store holds row 2 only.
C25_Witness ==
    /\ last.op = "add_log" /\ last.returned = 2
    /\ LogIds = {2}

\* ------------------------------------------------------------------ C23
\* C23: get_logs_range(start, end) returns exactly the log rows whose
\* start_time falls on a date d with start <= d <= end, whatever the time of
\* day and whatever the end_time, each row once and in ascending start_time;
\* it returns nothing when start > end; and get_logs_day(d) returns the rows
\* of get_logs_range(d, d) in the same order.
StartsWithin(l, start_day, end_day) ==
    /\ start_day * SecondsPerDay <= l.start_time
    /\ l.start_time < (end_day + 1) * SecondsPerDay
C23_RangeIsInclusive ==
    /\ last.op = "get_logs_range" =>
         LET rows == last.rows
             wanted == {l \in logs : StartsWithin(l, last.arg[1], last.arg[2])}
         IN /\ {rows[i].id : i \in 1..Len(rows)} = {l.id : l \in wanted}
            /\ Len(rows) = Cardinality(wanted)
            /\ \A i \in 1..Len(rows) : \E l \in wanted :
                 /\ l.id = rows[i].id /\ l.start_time = rows[i].start_time
                 /\ l.end_time = rows[i].end_time /\ l.duration = rows[i].duration
            /\ \A i \in 1..Len(rows) : \A j \in i..Len(rows) :
                 rows[i].start_time <= rows[j].start_time
            /\ last.arg[1] > last.arg[2] => rows = <<>>
    /\ last.op = "get_logs_day" =>
         last.rows = get_logs_range(last.arg[1], last.arg[1])

\* get_logs_range over the first day alone has returned two of three rows:
\* the row that starts in the last second of the day and ends on the next
\* day, after a row written later that starts earlier; the row of the next
\* day is left out.
C23_Witness ==
    /\ last.op = "get_logs_range" /\ last.arg = <<0, 0>>
    /\ Cardinality(logs) = 3 /\ Len(last.rows) = 2
    /\ last.rows[1].id > last.rows[2].id
    /\ last.rows[2].start_time = SecondsPerDay - 1
    /\ last.rows[2].end_time >= SecondsPerDay

\* ------------------------------------------------------------------ C21
\* C21: summary_by_day(start, end) returns exactly one row for each date in
\* [start, end] on which a log row starts, with the sum of the durations of
\* the rows that start on that date, in ascending order of date; a date
\* without rows is absent; and the totals add up to the durations of the
\* rows of get_logs_range(start, end).
RECURSIVE SumOfTotals(_)
SumOfTotals(rows) ==
    IF rows = <<>> THEN 0 ELSE Head(rows).total_sec + SumOfTotals(Tail(rows))
RECURSIVE SumOfDurations(_)
SumOfDurations(rows) ==
    IF rows = <<>> THEN 0 ELSE Head(rows).duration + SumOfDurations(Tail(rows))
C21_SummaryByDay ==
    last.op = "summary_by_day" =>
        LET rows == last.rows
            wanted == {l \in logs : StartsWithin(l, last.arg[1], last.arg[2])}
            dates == {d \in Days : \E l \in wanted : StartsWithin(l, d, d)}
        IN /\ {rows[i].dia : i \in 1..Len(rows)} = dates
           /\ Len(rows) = Cardinality(dates)
           /\ \A i \in 1..Len(rows) :
                /\ rows[i].total_sec = SumOfDurations(get_logs_range(rows[i].dia, rows[i].dia))
                /\ rows[i].total_sec > 0
           /\ \A i \in 1..Len(rows) : \A j \in (i + 1)..Len(rows) :
                rows[i].dia < rows[j].dia
           /\ SumOfTotals(rows) =
                SumOfDurations(get_logs_range(last.arg[1], last.arg[2]))

\* summary_by_day over both days has returned two rows: the first day with
\* the sum of its two rows, then the second day, whose only row was written
\* first.
C21_Witness ==
    /\ last.op = "summary_by_day" /\ last.arg = <<0, 1>>
    /\ Len(last.rows) = 2
    /\ last.rows[1].dia = 0 /\ last.rows[1].total_sec = 3
    /\ last.rows[2].dia = 1
    /\ \E l \in logs : l.id = 1 /\ l.start_time >= SecondsPerDay
    /\ Cardinality({l \in logs : l.start_time < SecondsPerDay}) = 2

\* ------------------------------------------------------------------ C22
\* C22: summary_by_subject_range(start, end) returns exactly one row for each
\* subject name that has a log row starting in [start, end], with the sum of
\* the durations of the rows in the range whose subject has that name
\* (subjects of different projects with the same name share one row), in
\* non-increasing order of total; a subject without rows in the range is
\* absent; the totals add up to the durations of the rows of
\* get_logs_range(start, end); and summary_by_subject_day(d) is the summary
\* of the range [d, d].
NameOfSubject(subject_id) == (CHOOSE x \in subjects : x.id = subject_id).name
C22_SummaryBySubject ==
    /\ last.op = "summary_by_subject_range" =>
        LET rows == last.rows
            listed == get_logs_range(last.arg[1], last.arg[2])
            wanted == {l \in logs : StartsWithin(l, last.arg[1], last.arg[2])}
            names == {NameOfSubject(l.subject_id) : l \in wanted}
        IN /\ {rows[i].name : i \in 1..Len(rows)} = names
           /\ Len(rows) = Cardinality(names)
           /\ \A i \in 1..Len(rows) :
                /\ rows[i].total_sec =
                     SumOfDurations(SelectSeq(listed,
                                              LAMBDA r : r.subject_name = rows[i].name))
                /\ rows[i].total_sec > 0
           /\ \A i \in 1..Len(rows) : \A j \in i..Len(rows) :
                rows[i].total_sec >= rows[j].total_sec
           /\ SumOfTotals(rows) = SumOfDurations(listed)
    /\ last.op = "summary_by_subject_day" =>
        last.rows = summary_by_subject_range(last.arg[1], last.arg[1])

\* summary_by_subject_range over both days has returned two rows: "a" with
\* the two seconds logged under the subjects "a" of the two projects, then
\* "aa" with one second.
C22_Witness ==
    /\ last.op = "summary_by_subject_range" /\ last.arg = <<0, 1>>
    /\ Len(last.rows) = 2
    /\ last.rows[1].name = <<"a">> /\ last.rows[1].total_sec = 2
    /\ last.rows[2].name = <<"a", "a">> /\ last.rows[2].total_sec = 1
    /\ {l.subject_id : l \in logs} = {1, 2, 3}

\* ------------------------------------------------------------------ C27
\* C27: after any sequence of add_project, add_subject, add_log,
\* delete_project and delete_subject calls, failed ones included, every
\* subject's project_id names a project of the store and every log row's
\* project_id and subject_id name a project and a subject of the store, so
\* that no row of get_logs_day or get_logs_range has a NULL project or
\* subject name.
C27_ReferencesHold ==
    /\ \A x \in subjects : x.project_id \in ProjectIds
    /\ \A l \in logs : l.project_id \in ProjectIds /\ l.subject_id \in SubjectIds
    /\ \A a \in Days, b \in Days :
         LET rows == get_logs_range(a, b)
         IN \A i \in 1..Len(rows) :
              rows[i].project_name # NullName /\ rows[i].subject_name # NullName
    /\ \A d \in Days :
         LET rows == get_logs_day(d)
         IN \A i \in 1..Len(rows) :
              rows[i].project_name # NullName /\ rows[i].subject_name # NullName

\* delete_project has just removed a project with its subjects and log rows
\* while log rows of another project remain, and they are listed.
C27_Witness ==
    /\ last.op = "delete_project"
    /\ last.found[1] > Cardinality(projects)
    /\ last.found[2] > Cardinality(subjects)
    /\ last.found[3] > Cardinality(logs)
    /\ Len(get_logs_day(0)) = Cardinality(logs) /\ logs # {}

\* ------------------------------------------------------------------ C26
\* C26: for every date d the derived range [start, end] has
\* start = d - weekday(d) with Monday as day 0 and end = start + 6, so that
\* start is a Monday, end is the Sunday after it, start <= d <= end, and the
\* seven dates from start to end all give this same range.
DayNumber(text) ==
    (text[1] - 1) * MonthsPerYear * DaysPerMonth + (text[2] - 1) * DaysPerMonth + text[3]
DaysAfterMonday(text) == (DayNumber(text) - 1) % 7
C26_WeekRange ==
    last.op \in {"_get_week_range", "export_week_pdf_from_calendar"} =>
        LET d == last.arg
            start == last.returned[1]
            end == last.returned[2]
        IN /\ DayNumber(start) = DayNumber(d) - DaysAfterMonday(d)
           /\ DayNumber(end) = DayNumber(start) + 6
           /\ DaysAfterMonday(start) = 0 /\ DaysAfterMonday(end) = 6
           /\ DayNumber(start) <= DayNumber(d) /\ DayNumber(d) <= DayNumber(end)
           /\ start[3] \in 1..DaysPerMonth /\ start[2] \in 1..MonthsPerYear
           /\ end[3] \in 1..DaysPerMonth /\ end[2] \in 1..MonthsPerYear
           /\ \A e \in DateTexts :
                (DayNumber(start) <= DayNumber(e) /\ DayNumber(e) <= DayNumber(end)) =>
                    WeekRange(e) = last.returned

\* The range of a Sunday has been derived: it starts six days earlier, in
\* the year before, and ends on the date itself.
C26_Witness ==
    /\ last.op = "_get_week_range"
    /\ DaysAfterMonday(last.arg) = 6
    /\ last.returned[2] = last.arg
    /\ last.returned[1][1] < last.arg[1]

\* ------------------------------------------------------------------ C31
\* The event loop runs a due after() callback and the wall clock goes on:
\* the timer under weak fairness of Tick and of Advance.
LiveSpec == Init /\ [][Next]_vars /\ WF_vars(Tick) /\ WF_vars(Advance)

\* The clock has room for the rest of the running phase: the pending tick,
\* one tick for every second of remaining, each one at most MaxLate late.
TimeLeft ==
    now + (remaining + 1) * (SubSec + MaxLate) <= MaxNow

\* C31: from any state with is_running, if the scheduled tick keeps being
\* delivered and neither pause() nor reset_timer() is called, the running
\* phase eventually completes (is_running is false and the session has moved
\* on by the cycle rule, which is when the dialog of the completion opens);
\* until then every tick counts remaining down by exactly one.
C31_RunningPhaseCompletes ==
    /\ (is_running /\ TimeLeft) ~> (alert_open \/ last.op \in {"pause", "reset"})
    /\ [][ (Tick /\ is_running /\ remaining > 0) =>
               (remaining' = remaining - 1 /\ is_running' /\ session' = session)
         ]_vars

\* C31 without the write the store rejects: a running phase completes, is
\* paused or reset, or ends in the state the IntegrityError of add_log
\* leaves (stopped, with current_start still set).
C31_CompletesUnlessRejected ==
    /\ (is_running /\ TimeLeft) ~>
          \/ alert_open
          \/ last.op \in {"pause", "reset"}
          \/ ~is_running /\ current_start # NoTime
    /\ [][ (Tick /\ is_running /\ remaining > 0) =>
               (remaining' = remaining - 1 /\ is_running' /\ session' = session)
         ]_vars

\* ------------------------------------------------------------------ C32
\* C32: every log row the timer writes records a subject of the recorded
\* project (the subject's project_id is the row's project_id), whatever the
\* sequence of start, pause, completion, project selection in the main
\* window (also while the timer runs) and reload on closing the manager.
C32_SubjectOfProject ==
    \A l \in logs :
        \E x \in subjects : x.id = l.subject_id /\ x.project_id = l.project_id

\* pause() has just written a row for a subject of the second project that
\* bears the name of the first project's subject, after a row of the first
\* project: the project was selected anew in between.
C32_Witness ==
    /\ last.op = "pause" /\ seq_logs = 2
    /\ \E l \in logs : l.id = 1 /\ l.project_id = 1 /\ l.subject_id = 1
    /\ \E l \in logs : l.id = 2 /\ l.project_id = 2 /\ l.subject_id = 2

\* ------------------------------------------------------------------ C33
\* C33: the manager's delete-subject button, pressed with a subject selected
\* and the user confirming, removes that subject and its logs and nothing
\* else; pressed with no subject selected, or with the user declining, it
\* leaves the store as it was.
C33_DeleteSubjectMirrorsProject ==
    [][ ManagerDeleteSubject =>
          IF last'.selected # None /\ last'.confirm
          THEN /\ subjects' = {s \in subjects : s.id # last'.selected}
               /\ logs' = {l \in logs : l.subject_id # last'.selected}
               /\ projects' = projects
          ELSE UNCHANGED <<projects, subjects, logs>> ]_vars

\* What the button does: whatever is selected and whatever the user would
\* answer, no table changes, and a selection ends in AttributeError.
C33_DeleteSubjectChangesNothing ==
    [][ ManagerDeleteSubject =>
          /\ UNCHANGED store
          /\ (last'.selected # None) = (last'.raised = "AttributeError") ]_vars

\* The button was pressed with subject 2 selected, which has a log, and the
\* user ready to confirm.
C33_Witness ==
    /\ last.op = "delete_subject" /\ last.selected = 2 /\ last.confirm
    /\ \E l \in logs : l.subject_id = 2
    /\ \E s \in subjects : s.id = 2

=============================================================================
